---- MODULE Spec2Model ----
(***************************************************************************)
(* Verification model of movie-trailer-downloader.                         *)
(*                                                                         *)
(*   grab_trailers_ini.py        the batch command: main, walk_movies,     *)
(*                               process_movie_dir, the TMDB / YouTube     *)
(*                               resolver and download_youtube_to          *)
(*   download-single-trailer.py  the manual command: main and              *)
(*                               download_youtube_to_manual                *)
(*                                                                         *)
(* The external collaborators (HTTP services, the downloader, ffprobe) are *)
(* nondeterministic: every answer they can give is drawn with \E.          *)
(* A file is modelled by what ffprobe reads from it: Absent (no file),     *)
(* None (a file whose height cannot be probed) or its height in pixels     *)
(* (a small number standing for 480, 720, 1080, ...).                      *)
(***************************************************************************)
EXTENDS Integers, Sequences, FiniteSets, TLC

VARIABLES cfg, lib, pc, cur, loc, main, calls, fsops, decs, memo, scan

vars == <<cfg, lib, pc, cur, loc, main, calls, fsops, decs, memo, scan>>

\* ------------------------------------------------------------------ bounds
MaxHeight == 3
MaxVids == 2
MaxRoots == 2
MaxDirs == 2
MaxRuns == 2
MaxPending == 1
MaxFiles == 3
MaxSize == 2

\* ---------------------------------------------------------------- encoding
\* os.path.exists(path) is false
Absent == -2
\* get_video_height returns None
None == -1
\* the only status the resolver accepts
HTTP_OK == 200

Heights == 1..MaxHeight
Files == {Absent, None} \cup Heights
Statuses == {HTTP_OK, 500}
Langs == {"de", "en"}

Exists(f) == f # Absent

\* get_video_height(path): the height ffprobe prints, None when it fails
\* (a missing file, an unreadable stream)
get_video_height(f) == IF f >= 0 THEN f ELSE None

\* Python truthiness of an Optional[int]: None and 0 are false
Truthy(h) == h # None /\ h # 0

\* --------------------------------------------------------- the file system
\* The four paths of one movie folder a download call works on:
\*   mp4, mkv    <base><suffix>.mp4 / .mkv in the movie directory
\*   tmp4, tmkv  the files of the same names in temp_dir
\* ops is the sequence of mutations done so far.
FsOf(folder, ops) ==
    [mp4 |-> folder.mp4, mkv |-> folder.mkv,
     tmp4 |-> folder.tmp4, tmkv |-> folder.tmkv, ops |-> ops]

\* if os.path.exists(p): os.remove(p)
RemoveIfExists(fs, p) ==
    IF Exists(fs[p])
    THEN [fs EXCEPT ![p] = Absent, !.ops = Append(@, <<"remove", p, p>>)]
    ELSE fs

\* shutil.move(src, dst) of an existing src: dst is overwritten
Move(fs, src, dst) ==
    [fs EXCEPT ![dst] = fs[src], ![src] = Absent,
               !.ops = Append(@, <<"move", src, dst>>)]

\* ydl.download([url]) with outtmpl = p: what it leaves at p
Download(fs, p, o) == [fs EXCEPT ![p] = o.file]

\* The trailer the code treats as the existing one: the .mkv when present,
\* otherwise the .mp4 (Absent when neither exists).
ExistingTrailer(fs) == IF Exists(fs.mkv) THEN fs.mkv ELSE fs.mp4
\* A faulty variant of ExistingPath: the .mp4 is looked at first
ExistingPathMp4First(fs) ==
    IF Exists(fs.mp4) THEN "mp4" ELSE IF Exists(fs.mkv) THEN "mkv" ELSE "none"

ExistingPath(fs) ==
    IF Exists(fs.mkv) THEN "mkv" ELSE IF Exists(fs.mp4) THEN "mp4" ELSE "none"

\* What the downloader can do in one pass: return normally (with or without
\* an output file), or raise (DownloadError with or without a fragment-403
\* message, or another exception), leaving nothing or an unprobeable partial.
DlOutcomes ==
    {[kind |-> "ok", file |-> f] : f \in Files}
    \cup {[kind |-> k, file |-> f] :
             k \in {"dlerr403", "dlerr", "exc"}, f \in {Absent, None}}

\* One considered candidate: the file system before and after the decision.
Dec(pass, pre, post) == [pass |-> pass, pre |-> pre, post |-> post]

\* The result of one pass: the file system, where control goes, the value
\* returned (ret = "none" while the call goes on) and the decisions taken.
Res(fs, next, ret, d) == [fs |-> fs, pc |-> next, ret |-> ret, decs |-> d]

\* ------------------------------------------- download_youtube_to (batch)
\* A faulty variant of ReplaceBatch: a candidate of equal height is kept too
ReplaceBatchGe(existing_h, new_h) ==
    existing_h = None \/ (Truthy(new_h) /\ new_h >= existing_h)

\* A faulty variant of ReplaceBatch: without the test for a missing height,
\* so that a candidate of unknown height is discarded even when there is
\* nothing to keep
ReplaceOnlyHigher(existing_h, new_h) ==
    Truthy(new_h) /\ new_h > existing_h

\* Line 351 (MP4 pass) and line 437 (MKV pass): keep the candidate when no
\* height is known for the current trailer, or when it is strictly higher.
ReplaceBatch(existing_h, new_h) ==
    existing_h = None \/ (Truthy(new_h) /\ new_h > existing_h)

\* Line 356: the MP4 just placed already has the preferred height
HitPreferred(new_h, preferred_height) ==
    Truthy(new_h) /\ new_h >= preferred_height

\* A faulty variant of MkvEnabledBatch: the setting is ignored
MkvAlways(allow) == TRUE

\* Line 375: the ANY->MKV pass is entered only when the configuration allows
MkvEnabledBatch(allow) == allow

\* Lines 374-385, reached when the MP4 pass neither returned nor was skipped
BatchAfterMp4(fs, allow, d) ==
    IF ~MkvEnabledBatch(allow)
    THEN Res(RemoveIfExists(fs, "tmp4"), "b_ret", "False", d)
    ELSE Res(fs, "b_mkv", "none", d)

\* Lines 338-372: the MP4-first pass. o is what the downloader does.
BatchMp4(fs0, o, existing_height, preferred_height, allow) ==
    LET fs1 == Download(fs0, "tmp4", o)
        new_h == get_video_height(fs1.tmp4)
    IN  IF o.kind # "ok"
        THEN BatchAfterMp4(fs1, allow, <<>>)
        ELSE IF ReplaceBatch(existing_height, new_h)
        THEN IF ~Exists(fs1.tmp4)
             THEN \* shutil.move raises: caught at line 371
                  BatchAfterMp4(fs1, allow, <<Dec("mp4", fs1, fs1)>>)
             ELSE LET fs2 == Move(fs1, "tmp4", "mp4")
                  IN  IF HitPreferred(new_h, preferred_height)
                      THEN Res(fs2, "b_ret", "True", <<Dec("mp4", fs1, fs2)>>)
                      ELSE BatchAfterMp4(fs2, allow, <<Dec("mp4", fs1, fs2)>>)
        ELSE LET fs2 == RemoveIfExists(fs1, "tmp4")
             IN  Res(fs2, "b_ret", "True", <<Dec("mp4", fs1, fs2)>>)

\* Lines 405-463: the ANY->MKV pass
BatchMkv(fs0, o) ==
    LET fsA == RemoveIfExists(fs0, "tmkv")
        fs1 == Download(fsA, "tmkv", o)
        new_h2 == get_video_height(fs1.tmkv)
        current_path == ExistingPath(fs1)
        current_h == IF current_path # "none"
                     THEN get_video_height(fs1[current_path]) ELSE None
    IN  IF o.kind # "ok"
        THEN Res(RemoveIfExists(fs1, "tmkv"), "b_ret", "False", <<>>)
        ELSE IF ReplaceBatch(current_h, new_h2)
        THEN LET fs2 == IF current_path # "none"
                        THEN RemoveIfExists(fs1, current_path) ELSE fs1
             IN  IF Exists(fs2.tmkv)
                 THEN LET fs3 == Move(fs2, "tmkv", "mkv")
                      IN  Res(fs3, "b_ret", "True", <<Dec("mkv", fs1, fs3)>>)
                 ELSE \* shutil.move raises: caught at line 456
                      Res(fs2, "b_ret", "False", <<Dec("mkv", fs1, fs2)>>)
        ELSE LET fs2 == RemoveIfExists(fs1, "tmkv")
             IN  Res(fs2, "b_ret", "True", <<Dec("mkv", fs1, fs2)>>)

\* ---------------------------------- download_youtube_to_manual (manual)
\* Lines 201, 234, 268 and 324: the same decision in the manual engine
ReplaceManual(existing_h, new_h) ==
    existing_h = None \/ (Truthy(new_h) /\ new_h > existing_h)

\* A faulty variant of IsFrag403: every DownloadError leads to the HLS pass
IsDownloadError(kind) == kind \in {"dlerr403", "dlerr"}

\* Line 218: _FRAG_403_RE.search(msg) on the DownloadError's message
IsFrag403(kind) == kind = "dlerr403"

\* Line 284: the ANY->MKV pass of the manual engine
MkvEnabledManual(allow) == allow

\* A faulty variant of ManualAfterProg: the HLS pass is tried again
ManualAfterProgRetry(fs, allow, d) == Res(fs, "m_hls", "none", d)

\* Lines 283-284: where control goes once the progressive pass is over
ManualAfterProg(fs, allow, d) ==
    IF MkvEnabledManual(allow)
    THEN Res(fs, "m_mkv", "none", d)
    ELSE Res(fs, "m_fail", "none", d)

\* Lines 195-216 and 345-346: the MP4-first pass and its exception handlers
ManualMp4(fs0, o, existing_height) ==
    LET fs1 == Download(fs0, "tmp4", o)
        new_h == get_video_height(fs1.tmp4)
    IN  IF o.kind = "exc"
        THEN Res(fs1, "m_fail", "none", <<>>)
        ELSE IF o.kind # "ok"
        THEN Res(fs1, IF IsFrag403(o.kind) THEN "m_hls" ELSE "m_prog",
                 "none", <<>>)
        ELSE IF ReplaceManual(existing_height, new_h)
        THEN IF ~Exists(fs1.tmp4)
             THEN \* shutil.move raises: caught at line 345
                  Res(fs1, "m_fail", "none", <<Dec("mp4", fs1, fs1)>>)
             ELSE LET fs2 == Move(fs1, "tmp4", "mp4")
                  IN  Res(fs2, "m_ret", "True", <<Dec("mp4", fs1, fs2)>>)
        ELSE LET fs2 == RemoveIfExists(fs1, "tmp4")
             IN  Res(fs2, "m_ret", "True", <<Dec("mp4", fs1, fs2)>>)

\* Lines 217-247: the HLS-only pass
ManualHls(fs0, o, existing_height) ==
    LET fsA == RemoveIfExists(fs0, "tmp4")
        fs1 == Download(fsA, "tmp4", o)
        new_h == get_video_height(fs1.tmp4)
    IN  IF o.kind # "ok"
        THEN Res(fs1, "m_prog", "none", <<>>)
        ELSE IF ReplaceManual(existing_height, new_h)
        THEN IF ~Exists(fs1.tmp4)
             THEN Res(fs1, "m_prog", "none", <<Dec("hls", fs1, fs1)>>)
             ELSE LET fs2 == Move(fs1, "tmp4", "mp4")
                  IN  Res(fs2, "m_ret", "True", <<Dec("hls", fs1, fs2)>>)
        ELSE LET fs2 == RemoveIfExists(fs1, "tmp4")
             IN  Res(fs2, "m_ret", "True", <<Dec("hls", fs1, fs2)>>)

\* Lines 249-281: the progressive-MP4 pass
ManualProg(fs0, o, existing_height, allow) ==
    LET fsA == RemoveIfExists(fs0, "tmp4")
        fs1 == Download(fsA, "tmp4", o)
        new_h == get_video_height(fs1.tmp4)
    IN  IF o.kind # "ok"
        THEN ManualAfterProg(fs1, allow, <<>>)
        ELSE IF ReplaceManual(existing_height, new_h)
        THEN IF ~Exists(fs1.tmp4)
             THEN ManualAfterProg(fs1, allow, <<Dec("prog", fs1, fs1)>>)
             ELSE LET fs2 == Move(fs1, "tmp4", "mp4")
                  IN  Res(fs2, "m_ret", "True", <<Dec("prog", fs1, fs2)>>)
        ELSE LET fs2 == RemoveIfExists(fs1, "tmp4")
             IN  ManualAfterProg(fs2, allow, <<Dec("prog", fs1, fs2)>>)

\* Lines 285-343: the ANY->MKV pass
ManualMkv(fs0, o, existing_height) ==
    LET fsA == RemoveIfExists(fs0, "tmkv")
        fs1 == Download(fsA, "tmkv", o)
        new_h2 == get_video_height(fs1.tmkv)
        current_best_path == ExistingPath(fs1)
        current_best_h == IF current_best_path # "none"
                          THEN get_video_height(fs1[current_best_path])
                          ELSE existing_height
    IN  IF o.kind # "ok"
        THEN Res(fs1, "m_fail", "none", <<>>)
        ELSE IF ReplaceManual(current_best_h, new_h2)
        THEN LET fs2 == IF current_best_path # "none"
                        THEN RemoveIfExists(fs1, current_best_path) ELSE fs1
             IN  IF Exists(fs2.tmkv)
                 THEN LET fs3 == Move(fs2, "tmkv", "mkv")
                      IN  Res(fs3, "m_ret", "True", <<Dec("mkv", fs1, fs3)>>)
                 ELSE \* shutil.move raises: caught at line 342
                      Res(fs2, "m_fail", "none", <<Dec("mkv", fs1, fs2)>>)
        ELSE LET fs2 == RemoveIfExists(fs1, "tmkv")
             IN  Res(fs2, "m_ret", "True", <<Dec("mkv", fs1, fs2)>>)

\* Lines 348-355: cleanup temp leftovers, return False
ManualFail(fs0) == Res(RemoveIfExists(fs0, "tmp4"), "m_ret", "False", <<>>)

\* ----------------------------------------------------------- the resolver
\* An HTTP answer: requests.get raises (net = "err"), or returns a status
\* and a body that r.json() can decode or not; found says whether the
\* decoded list ("results" / "items") is non-empty.
HttpResps ==
    {[net |-> "err", status |-> HTTP_OK, json |-> FALSE, found |-> FALSE]}
    \cup {[net |-> "ok", status |-> HTTP_OK, json |-> TRUE, found |-> b] :
             b \in BOOLEAN}
    \cup {[net |-> "ok", status |-> s, json |-> j, found |-> FALSE] :
             s \in Statuses \ {HTTP_OK}, j \in BOOLEAN}

\* One entry of /movie/{id}/videos: its iso_639_1 tag and whether it is a
\* YouTube trailer (is_trailer, line 203). Its key is its position in the
\* answer.
Videos == [lang : Langs, trailer : BOOLEAN]

RECURSIVE SeqsUpTo(_, _)
SeqsUpTo(S, n) ==
    IF n = 0 THEN {<<>>}
    ELSE LET shorter == SeqsUpTo(S, n - 1)
         IN  shorter \cup {Append(q, x) : q \in {r \in shorter : Len(r) = n - 1},
                                          x \in S}

VidLists == SeqsUpTo(Videos, MaxVids)

\* An answer of the videos endpoint
VideoResps ==
    {[net |-> "err", status |-> HTTP_OK, json |-> FALSE, vids |-> <<>>]}
    \cup {[net |-> "ok", status |-> HTTP_OK, json |-> TRUE, vids |-> v] :
             v \in VidLists}
    \cup {[net |-> "ok", status |-> s, json |-> j, vids |-> <<>>] :
             s \in Statuses \ {HTTP_OK}, j \in BOOLEAN}

\* What a resolver function hands back: a value, or an exception, the
\* requests it issued, and whether one of them was answered with a status
\* other than 200 (non2xx).
Got(val, lang, reqs, non2xx) ==
    [raised |-> FALSE, val |-> val, lang |-> lang, reqs |-> reqs,
     non2xx |-> non2xx]
Raised(reqs, non2xx) ==
    [raised |-> TRUE, val |-> 0, lang |-> "none", reqs |-> reqs,
     non2xx |-> non2xx]

\* r.status_code != 200 on a response that was received
NonOk(r) == r.net = "ok" /\ r.status # HTTP_OK

\* tmdb_search_movie, lines 161-190: the movie id (1) or None (0).
\* The ranking of several results (line 189) is not modelled: the answer
\* says only whether there is a result.
tmdb_search_movie(year, r, r2) ==
    IF r.net = "err" THEN Raised(<<"tmdb_search">>, FALSE)
    ELSE IF r.status # HTTP_OK THEN Got(0, "none", <<"tmdb_search">>, TRUE)
    ELSE IF ~r.found /\ year
    THEN \* lines 176-180: retry without the year, no status check
         IF r2.net = "err" \/ ~r2.json
         THEN Raised(<<"tmdb_search", "tmdb_search_retry">>, NonOk(r2))
         ELSE Got(IF r2.found THEN 1 ELSE 0, "none",
                  <<"tmdb_search", "tmdb_search_retry">>, NonOk(r2))
    ELSE Got(IF r.found THEN 1 ELSE 0, "none", <<"tmdb_search">>, FALSE)

\* The first entry, in answer order, among those of idx ranked highest:
\* list.sort(key, reverse=True) is stable.
Top(idx, rank) ==
    CHOOSE i \in idx :
        \A j \in idx : rank[j] < rank[i] \/ (rank[j] = rank[i] /\ i <= j)

B2N(b) == IF b THEN 1 ELSE 0

\* tmdb_trailer_youtube_key, lines 192-221: (key, iso_639_1) or (None, None).
\* Of the sort keys the language match (line 217) is modelled; entries that
\* tie on it are taken in the answer's order (official, name and size are
\* not modelled).
tmdb_trailer_youtube_key(lang_code, r, r2) ==
    IF r.net = "err" THEN Raised(<<"tmdb_videos">>, FALSE)
    ELSE IF r.status # HTTP_OK THEN Got(0, "none", <<"tmdb_videos">>, TRUE)
    ELSE LET vids == r.vids
             preferred == {i \in DOMAIN vids :
                             vids[i].trailer /\ vids[i].lang = lang_code}
         IN  IF preferred # {}
             THEN LET v == Top(preferred, [i \in preferred |-> 0])
                  IN  Got(v, vids[v].lang, <<"tmdb_videos">>, FALSE)
             ELSE IF r2.net = "err"
             THEN Raised(<<"tmdb_videos", "tmdb_videos_any">>, FALSE)
             ELSE LET vids2 == IF r2.status = HTTP_OK THEN r2.vids ELSE <<>>
                      any_trailer == {i \in DOMAIN vids2 : vids2[i].trailer}
                  IN  IF any_trailer # {}
                      THEN LET v == Top(any_trailer,
                                        [i \in any_trailer |->
                                            B2N(vids2[i].lang = lang_code)])
                           IN  Got(v, vids2[v].lang,
                                   <<"tmdb_videos", "tmdb_videos_any">>,
                                   NonOk(r2))
                      ELSE Got(0, "none",
                               <<"tmdb_videos", "tmdb_videos_any">>,
                               NonOk(r2))

\* A faulty variant of StrictGateDrops: the TMDB result is always kept
StrictNever(strict, video_id, found_lang, lang_code) == FALSE

\* Line 544: the strict-language gate drops the TMDB result
StrictGateDrops(strict, video_id, found_lang, lang_code) ==
    strict /\ video_id # 0 /\ found_lang # lang_code

\* A faulty variant of youtube_search_trailer: the request is made without
\* a key too
YoutubeSearchKeyless(youtube_api_key, r) ==
    IF r.net = "err" THEN Raised(<<"yt_search">>, FALSE)
    ELSE IF r.status # HTTP_OK THEN Got(0, "none", <<"yt_search">>, TRUE)
    ELSE Got(IF r.found THEN 1 ELSE 0, "none", <<"yt_search">>, FALSE)

\* youtube_search_trailer, lines 225-257: the top hit's id (1) or None (0)
youtube_search_trailer(youtube_api_key, r) ==
    IF ~youtube_api_key THEN Got(0, "none", <<>>, FALSE)
    ELSE IF r.net = "err" THEN Raised(<<"yt_search">>, FALSE)
    ELSE IF r.status # HTTP_OK THEN Got(0, "none", <<"yt_search">>, TRUE)
    ELSE Got(IF r.found THEN 1 ELSE 0, "none", <<"yt_search">>, FALSE)

\* ------------------------------------------------------------ the library
\* walk_movies, lines 466-474: the sub-directories of a root, sorted by name
RECURSIVE SortAsc(_)
SortAsc(S) ==
    IF S = {} THEN <<>>
    ELSE LET m == CHOOSE x \in S : \A y \in S : x <= y
         IN  <<m>> \o SortAsc(S \ {m})

ListingOrder(S) == SortAsc(S)

walk_movies(root) ==
    IF ~root.isdir THEN <<>>
    ELSE ListingOrder({d \in DOMAIN root.entries : root.entries[d].kind = "dir"})

\* ---------------------------------------------------------------- state
\* An entry of a root directory. kind: "none" (no such entry), "file" (not
\* a directory) or "dir" (a movie folder). movie: first_movie_file finds a
\* main video.
NoEntry ==
    [kind |-> "none", movie |-> FALSE,
     mp4 |-> Absent, mkv |-> Absent, tmp4 |-> Absent, tmkv |-> Absent]
PlainFile == [NoEntry EXCEPT !.kind = "file"]
EmptyDir == [NoEntry EXCEPT !.kind = "dir"]

MovieFolders ==
    [kind : {"dir"}, movie : {TRUE},
     mp4 : Files, mkv : Files, tmp4 : {Absent}, tmkv : {Absent}]

EmptyLib ==
    [r \in 1..MaxRoots |->
        [isdir |-> FALSE, entries |-> [d \in 1..MaxDirs |-> NoEntry]]]

OneFolderLib(f) ==
    [EmptyLib EXCEPT ![1] = [isdir |-> TRUE,
                             entries |-> [@.entries EXCEPT ![1] = f]]]

\* The loaded configuration (load_config) and the command line.
\* file: the INI file exists; tmdbkey: a TMDB key of 10 characters or more;
\* ytkey: a YouTube key is configured; idok: extract_youtube_id finds an id.
DefaultCfg ==
    [cmd |-> "batch", file |-> TRUE, tmdbkey |-> TRUE, ytkey |-> TRUE,
     lang |-> "de", strict |-> FALSE, allow |-> TRUE, pref |-> MaxHeight,
     roots |-> <<1>>, idok |-> TRUE]

BatchCfgs ==
    {[DefaultCfg EXCEPT !.ytkey = y, !.strict = s, !.allow = a, !.pref = p] :
        y \in BOOLEAN, s \in BOOLEAN, a \in BOOLEAN, p \in 2..MaxHeight}
    \cup {[DefaultCfg EXCEPT !.file = FALSE],
          [DefaultCfg EXCEPT !.tmdbkey = FALSE],
          [DefaultCfg EXCEPT !.roots = <<>>]}

ManualCfgs ==
    {[DefaultCfg EXCEPT !.cmd = "manual", !.file = f, !.idok = i,
                        !.allow = a, !.pref = p] :
        f \in BOOLEAN, i \in BOOLEAN, a \in BOOLEAN, p \in 2..MaxHeight}

\* The locals of process_movie_dir / main and of the download call.
\* start is the folder as it was when its processing began; non2xx says
\* whether the resolver stage just run was answered with a status other
\* than 200.
LocInit ==
    [eh |-> None, start |-> NoEntry, movie_id |-> 0, key |-> 0,
     found_lang |-> "none", vid |-> 0, src |-> "none", ret |-> "none",
     non2xx |-> FALSE]

MainInit(runs) ==
    [run |-> 1, runs |-> runs, ri |-> 0, queue |-> <<>>,
     processed |-> <<>>, errors |-> <<>>, exit |-> -1]

\* What the upstream services answered, kept when the command is to be run
\* again so that the second run gets the same answers: for the folder name
\* and the HTTP services what the resolver function made of them, for the
\* downloader what it did in each pass.
NoMemo ==
    [search |-> <<>>, videos |-> <<>>, yt |-> <<>>,
     dl_mp4 |-> <<>>, dl_mkv |-> <<>>]

Answers(k, all) == IF memo[k] # <<>> THEN {memo[k][1]} ELSE all

Remember(m, k, v) ==
    IF main.runs > 1 THEN [m EXCEPT ![k] = <<v>>] ELSE m

CurFolder == lib[cur[1]].entries[cur[2]]

CurFs == FsOf(CurFolder, fsops)

\* The locals of a download call: of its caller's it gets only the
\* arguments existing_height and video_id (src: the stage that found it).
Frame(l) ==
    [LocInit EXCEPT !.eh = l.eh, !.start = l.start, !.vid = l.vid,
                    !.src = l.src, !.ret = l.ret]

\* The state after a pass of a download call
Commit(r) ==
    /\ lib' = [lib EXCEPT ![cur[1]].entries[cur[2]] =
                  [@ EXCEPT !.mp4 = r.fs.mp4, !.mkv = r.fs.mkv,
                            !.tmp4 = r.fs.tmp4, !.tmkv = r.fs.tmkv]]
    /\ fsops' = r.fs.ops
    /\ decs' = decs \o r.decs
    /\ pc' = r.pc
    /\ loc' = [Frame(loc) EXCEPT !.ret = r.ret]

\* scan holds the argument and the result of a function that is run on its
\* own (first_movie_file); the two commands do not use it.
NoScan == [dir |-> <<>>, exts |-> {}, result |-> -1]

InitCommon ==
    /\ pc = "start"
    /\ scan = NoScan
    /\ loc = LocInit
    /\ calls = <<>>
    /\ fsops = <<>>
    /\ decs = <<>>
    /\ memo = NoMemo

\* The batch command over a library of one root and at most one folder
InitBatchOne(runs) ==
    /\ cfg \in BatchCfgs
    /\ lib \in {OneFolderLib(f) :
                   f \in MovieFolders \cup {EmptyDir, PlainFile}}
               \cup {EmptyLib}
    /\ cur = <<0, 0>>
    /\ main = MainInit(runs)

\* The manual command on the path lib[1].entries[1]
InitManual ==
    /\ cfg \in ManualCfgs
    /\ lib \in {OneFolderLib(f) :
                   f \in MovieFolders \cup {EmptyDir, PlainFile, NoEntry}}
    /\ cur = <<1, 1>>
    /\ main = MainInit(1)

Init == InitCommon /\ (InitBatchOne(1) \/ InitManual)

\* ------------------------------------------------- the batch command: main
\* main, lines 584-594, with load_config, lines 45-95
BatchMain ==
    /\ pc = "start"
    /\ cfg.cmd = "batch"
    /\ IF ~cfg.file \/ ~cfg.tmdbkey \/ cfg.roots = <<>>
       THEN /\ pc' = "done"
            /\ main' = [main EXCEPT !.exit = 2]
       ELSE /\ pc' = "main"
            /\ main' = [main EXCEPT !.ri = 0, !.queue = <<>>,
                                    !.processed = <<>>, !.errors = <<>>]
    /\ UNCHANGED <<scan, cfg, lib, cur, loc, calls, fsops, decs, memo>>

\* Line 596: the next configured root, listed by walk_movies
NextRoot ==
    /\ pc = "main"
    /\ main.queue = <<>>
    /\ main.ri < Len(cfg.roots)
    /\ main' = [main EXCEPT !.ri = @ + 1,
                            !.queue = walk_movies(lib[cfg.roots[main.ri + 1]])]
    /\ UNCHANGED <<scan, cfg, lib, pc, cur, loc, calls, fsops, decs, memo>>

\* Lines 597-599: the next movie folder of the root is handed to
\* process_movie_dir
NextMovieDir ==
    /\ pc = "main"
    /\ main.queue # <<>>
    /\ LET d == <<cfg.roots[main.ri], Head(main.queue)>>
       IN  /\ cur' = d
           /\ loc' = [LocInit EXCEPT !.start = lib[d[1]].entries[d[2]]]
           /\ main' = [main EXCEPT !.queue = Tail(@),
                                   !.processed = Append(@, <<main.ri, d[2]>>)]
    /\ pc' = "pmd"
    /\ calls' = <<>>
    /\ fsops' = <<>>
    /\ decs' = <<>>
    /\ UNCHANGED <<scan, cfg, lib, memo>>

\* The loops of line 596 are exhausted: main returns
MainReturn ==
    /\ pc = "main"
    /\ main.queue = <<>>
    /\ main.ri = Len(cfg.roots)
    /\ pc' = "done"
    /\ main' = [main EXCEPT !.exit = 0]
    /\ UNCHANGED <<scan, cfg, lib, cur, loc, calls, fsops, decs, memo>>

\* The command is run again over the library the first run left
Rerun ==
    /\ pc = "done"
    /\ cfg.cmd = "batch"
    /\ main.exit = 0
    /\ main.run < main.runs
    /\ pc' = "start"
    /\ main' = [main EXCEPT !.run = @ + 1, !.exit = -1]
    /\ cur' = <<0, 0>>
    /\ loc' = LocInit
    /\ calls' = <<>>
    /\ fsops' = <<>>
    /\ decs' = <<>>
    /\ UNCHANGED <<scan, cfg, lib, memo>>

\* A faulty variant of OnFolderError: the exception ends the command
AbortOnError(m, d) == [pc |-> "done", main |-> [m EXCEPT !.exit = 1]]

\* Lines 603-604 (except Exception): the error is logged, the loop goes on
OnFolderError(m, d) ==
    [pc |-> "main", main |-> [m EXCEPT !.errors = Append(@, d)]]

\* Lines 598-606: process_movie_dir raised; except Exception, then finally
CatchException ==
    /\ pc = "raised"
    /\ LET h == OnFolderError(main, cur)
       IN  /\ pc' = h.pc
           /\ main' = h.main
    /\ loc' = LocInit
    /\ calls' = <<>>
    /\ fsops' = <<>>
    /\ decs' = <<>>
    /\ UNCHANGED <<scan, cfg, lib, cur, memo>>

\* process_movie_dir returned: lines 605-606 (finally), then the next folder
FolderDone ==
    /\ pc = "pmd_ret"
    /\ pc' = "main"
    /\ loc' = LocInit
    /\ calls' = <<>>
    /\ fsops' = <<>>
    /\ decs' = <<>>
    /\ UNCHANGED <<scan, cfg, lib, cur, main, memo>>

FolderPcs ==
    {"pmd", "tmdb_search", "tmdb_videos", "gate", "yt",
     "b_call", "b_mp4", "b_mkv", "b_ret"}

\* Lines 600-602: a user interrupt while a folder is processed
KeyboardInterrupt ==
    /\ pc \in FolderPcs
    /\ pc' = "done"
    /\ main' = [main EXCEPT !.exit = 130]
    /\ loc' = LocInit
    /\ calls' = <<>>
    /\ fsops' = <<>>
    /\ decs' = <<>>
    /\ UNCHANGED <<scan, cfg, lib, cur, memo>>

\* ------------------------------------------------------ process_movie_dir
\* A faulty variant of SkipSatisfied: a trailer of exactly the preferred
\* height is not skipped
SkipAbove(existing_height, preferred_height) ==
    existing_height > preferred_height

\* Line 511: the existing trailer already has the preferred height
SkipSatisfied(existing_height, preferred_height) ==
    existing_height >= preferred_height

\* Lines 495-508 (batch) and 388-399 (manual): the height of the existing
\* trailer, the .mkv before the .mp4; None when there is none
ExistingHeight(folder) ==
    IF ExistingPath(folder) = "none" THEN None
    ELSE get_video_height(folder[ExistingPath(folder)])

\* Lines 487-517
ProcessMovieDir ==
    /\ pc = "pmd"
    /\ LET existing_height == ExistingHeight(CurFolder)
       IN  /\ loc' = IF CurFolder.movie
                     THEN [loc EXCEPT !.eh = existing_height] ELSE loc
           /\ pc' = IF ~CurFolder.movie THEN "pmd_ret"
                    ELSE IF existing_height # None
                            /\ SkipSatisfied(existing_height, cfg.pref)
                    THEN "pmd_ret"
                    ELSE "tmdb_search"
    /\ UNCHANGED <<scan, cfg, lib, cur, main, calls, fsops, decs, memo>>

\* Everything each resolver function can return, over every folder name
\* (year: whether it carries a year) and every answer of the services
SearchResults ==
    {tmdb_search_movie(year, r, r2) :
        year \in BOOLEAN, r \in HttpResps, r2 \in HttpResps}

VideoResults(lang_code) ==
    {tmdb_trailer_youtube_key(lang_code, r, r2) :
        r \in VideoResps, r2 \in VideoResps}

YoutubeResults(youtube_api_key) ==
    {youtube_search_trailer(youtube_api_key, r) : r \in HttpResps}

\* Lines 519-536: the title and the year are taken from the folder name
\* (year: whether it carries one), then tmdb_search_movie
TmdbSearchMovie ==
    /\ pc = "tmdb_search"
    /\ \E got \in Answers("search", SearchResults) :
        /\ calls' = calls \o got.reqs
        /\ memo' = Remember(memo, "search", got)
        /\ loc' = [loc EXCEPT !.movie_id = got.val, !.non2xx = got.non2xx]
        /\ pc' = IF got.raised THEN "raised"
                 ELSE IF got.val # 0 THEN "tmdb_videos" ELSE "gate"
    /\ UNCHANGED <<scan, cfg, lib, cur, main, fsops, decs>>

\* Lines 538-541: tmdb_trailer_youtube_key
TmdbTrailerYoutubeKey ==
    /\ pc = "tmdb_videos"
    /\ \E got \in Answers("videos", VideoResults(cfg.lang)) :
        /\ calls' = calls \o got.reqs
        /\ memo' = Remember(memo, "videos", got)
        /\ loc' = [loc EXCEPT !.key = got.val, !.found_lang = got.lang,
                              !.vid = got.val, !.non2xx = got.non2xx,
                              !.src = IF got.val # 0 THEN "tmdb" ELSE "none"]
        /\ pc' = IF got.raised THEN "raised" ELSE "gate"
    /\ UNCHANGED <<scan, cfg, lib, cur, main, fsops, decs>>

\* Lines 543-549: the strict-language gate
StrictGate ==
    /\ pc = "gate"
    /\ LET drop == StrictGateDrops(cfg.strict, loc.vid, loc.found_lang, cfg.lang)
           video_id == IF drop THEN 0 ELSE loc.vid
       IN  /\ loc' = [loc EXCEPT !.vid = video_id,
                                 !.src = IF drop THEN "none" ELSE @]
           /\ pc' = IF video_id = 0 THEN "yt" ELSE "b_call"
    /\ UNCHANGED <<scan, cfg, lib, cur, main, calls, fsops, decs, memo>>

\* Lines 551-559: the YouTube fallback
YoutubeSearch ==
    /\ pc = "yt"
    /\ \E got \in Answers("yt", YoutubeResults(cfg.ytkey)) :
        /\ calls' = calls \o got.reqs
        /\ memo' = Remember(memo, "yt", got)
        /\ loc' = [loc EXCEPT !.vid = got.val, !.non2xx = got.non2xx,
                              !.src = IF got.val # 0 THEN "youtube" ELSE "none"]
        /\ pc' = IF got.raised THEN "raised"
                 ELSE IF got.val = 0 THEN "pmd_ret" ELSE "b_call"
    /\ UNCHANGED <<scan, cfg, lib, cur, main, fsops, decs>>

\* download_youtube_to, lines 274-336: the temp paths, the stale temp file
DownloadYoutubeTo ==
    /\ pc = "b_call"
    /\ Commit(Res(RemoveIfExists(CurFs, "tmp4"), "b_mp4", "none", <<>>))
    /\ UNCHANGED <<scan, cfg, cur, main, calls, memo>>

\* download_youtube_to, lines 338-385
BatchMp4Pass ==
    /\ pc = "b_mp4"
    /\ \E o \in Answers("dl_mp4", DlOutcomes) :
        /\ Commit(BatchMp4(CurFs, o, loc.eh, cfg.pref, cfg.allow))
        /\ memo' = Remember(memo, "dl_mp4", o)
    /\ calls' = Append(calls, "dl_mp4")
    /\ UNCHANGED <<scan, cfg, cur, main>>

\* download_youtube_to, lines 405-463
BatchMkvPass ==
    /\ pc = "b_mkv"
    /\ \E o \in Answers("dl_mkv", DlOutcomes) :
        /\ Commit(BatchMkv(CurFs, o))
        /\ memo' = Remember(memo, "dl_mkv", o)
    /\ calls' = Append(calls, "dl_mkv")
    /\ UNCHANGED <<scan, cfg, cur, main>>

\* process_movie_dir, lines 571-574: the result is logged
DownloadReturned ==
    /\ pc = "b_ret"
    /\ pc' = "pmd_ret"
    /\ UNCHANGED <<scan, cfg, lib, cur, loc, main, calls, fsops, decs, memo>>

\* ------------------------------------------------------ the manual command
\* main, lines 366-399, with load_config, lines 18-24
ManualMain ==
    /\ pc = "start"
    /\ cfg.cmd = "manual"
    /\ IF ~cfg.file \/ CurFolder.kind # "dir" \/ ~cfg.idok \/ ~CurFolder.movie
       THEN /\ pc' = "done"
            /\ main' = [main EXCEPT !.exit = 2]
            /\ loc' = loc
       ELSE /\ pc' = "m_call"
            /\ main' = main
            /\ loc' = [loc EXCEPT !.eh = ExistingHeight(CurFolder),
                                  !.start = CurFolder]
    /\ UNCHANGED <<scan, cfg, lib, cur, calls, fsops, decs, memo>>

\* download_youtube_to_manual, lines 167-183: the stale temp file
DownloadYoutubeToManual ==
    /\ pc = "m_call"
    /\ Commit(Res(RemoveIfExists(CurFs, "tmp4"), "m_mp4", "none", <<>>))
    /\ UNCHANGED <<scan, cfg, cur, main, calls, memo>>

\* What the handlers of lines 213 and 345 are given: nothing when the
\* downloader returned, otherwise the kind of the exception raised
Thrown(o) == IF o.kind = "ok" THEN <<>> ELSE <<o.kind>>

\* Lines 195-216, 345-346. What the downloader raised is logged after the
\* call, since the handlers of this pass tell the exceptions apart.
ManualMp4Pass ==
    /\ pc = "m_mp4"
    /\ \E o \in DlOutcomes :
        /\ Commit(ManualMp4(CurFs, o, loc.eh))
        /\ calls' = calls \o <<"dl_mp4">> \o Thrown(o)
    /\ UNCHANGED <<scan, cfg, cur, main, memo>>

\* Lines 217-247
ManualHlsPass ==
    /\ pc = "m_hls"
    /\ \E o \in DlOutcomes : Commit(ManualHls(CurFs, o, loc.eh))
    /\ calls' = Append(calls, "dl_hls")
    /\ UNCHANGED <<scan, cfg, cur, main, memo>>

\* Lines 249-284
ManualProgPass ==
    /\ pc = "m_prog"
    /\ \E o \in DlOutcomes : Commit(ManualProg(CurFs, o, loc.eh, cfg.allow))
    /\ calls' = Append(calls, "dl_prog")
    /\ UNCHANGED <<scan, cfg, cur, main, memo>>

\* Lines 285-343
ManualMkvPass ==
    /\ pc = "m_mkv"
    /\ \E o \in DlOutcomes : Commit(ManualMkv(CurFs, o, loc.eh))
    /\ calls' = Append(calls, "dl_mkv")
    /\ UNCHANGED <<scan, cfg, cur, main, memo>>

\* Lines 348-355
ManualCleanup ==
    /\ pc = "m_fail"
    /\ Commit(ManualFail(CurFs))
    /\ UNCHANGED <<scan, cfg, cur, main, calls, memo>>

\* A faulty variant of ExitCode: the result of the call is ignored
ExitCodeZero(ret) == 0

\* main, lines 412-417: sys.exit(0) if ok, else sys.exit(1)
ExitCode(ret) == IF ret = "True" THEN 0 ELSE 1

\* main, lines 403-417
ManualExit ==
    /\ pc = "m_ret"
    /\ pc' = "done"
    /\ main' = [main EXCEPT !.exit = ExitCode(loc.ret)]
    /\ UNCHANGED <<scan, cfg, lib, cur, loc, calls, fsops, decs, memo>>

\* ------------------------------------------------------- specifications
BatchSteps ==
    \/ BatchMain
    \/ NextRoot
    \/ NextMovieDir
    \/ MainReturn
    \/ CatchException
    \/ FolderDone
    \/ ProcessMovieDir
    \/ TmdbSearchMovie
    \/ TmdbTrailerYoutubeKey
    \/ StrictGate
    \/ YoutubeSearch
    \/ DownloadYoutubeTo
    \/ BatchMp4Pass
    \/ BatchMkvPass
    \/ DownloadReturned

BatchNext == BatchSteps \/ KeyboardInterrupt

ManualNext ==
    \/ ManualMain
    \/ DownloadYoutubeToManual
    \/ ManualMp4Pass
    \/ ManualHlsPass
    \/ ManualProgPass
    \/ ManualMkvPass
    \/ ManualCleanup
    \/ ManualExit

Next == BatchNext \/ ManualNext

\* One invocation of either command on one movie folder
Spec == Init /\ [][Next]_vars

\* The batch command run to its end MaxRuns times over one folder, the
\* upstream services answering each run as they answered the first
InitRerun ==
    /\ InitCommon
    /\ InitBatchOne(MaxRuns)
    /\ cfg \in {[DefaultCfg EXCEPT !.allow = a, !.pref = 2] : a \in BOOLEAN}

SpecRerun == InitRerun /\ [][BatchSteps \/ Rerun]_vars

\* The batch command over a library of several roots and folders
Satisfied == [EmptyDir EXCEPT !.movie = TRUE, !.mp4 = MaxHeight]
NoTrailer == [EmptyDir EXCEPT !.movie = TRUE]
Templates == {PlainFile, EmptyDir, NoTrailer, Satisfied}

InitBatchMany ==
    /\ InitCommon
    /\ cfg \in {[DefaultCfg EXCEPT !.roots = rs] :
                   rs \in {<<>>, <<1>>, <<1, 2>>, <<2, 1>>}}
    /\ lib \in [1..MaxRoots ->
                   {[isdir |-> TRUE, entries |-> e] :
                       e \in [1..MaxDirs -> Templates]}
                   \cup {EmptyLib[1]}]
    /\ Cardinality({ix \in (1..MaxRoots) \X (1..MaxDirs) :
                        lib[ix[1]].entries[ix[2]] = NoTrailer}) <= MaxPending
    /\ cur = <<0, 0>>
    /\ main = MainInit(1)

SpecBatch == InitBatchMany /\ [][BatchNext]_vars

\* ------------------------------------------------------ first_movie_file
\* An entry of the directory listed: whether os.path.isfile holds, its
\* extension as written, its size in bytes. Its name is its position in
\* the listing (os.listdir gives no particular order).
FileExts == {"mkv", "MKV", "txt"}
DirEntries == [isfile : BOOLEAN, ext : FileExts, size : 1..MaxSize]
Listings == SeqsUpTo(DirEntries, MaxFiles)

\* The video_exts load_config builds: lower-case extensions
ExtSets == SUBSET {"mkv", "txt"}

\* str.lower() of an extension
Lower(e) == IF e = "MKV" THEN "mkv" ELSE e

\* A faulty variant of LargestFirst: reverse=True is forgotten
SmallestFirst(a, b) == a < b

\* Line 135: sort(key=getsize, reverse=True) puts a before b
LargestFirst(a, b) == a > b

\* list.sort is stable: an entry goes before the first one it must precede
RECURSIVE InsertSorted(_, _, _)
InsertSorted(sorted, i, dir) ==
    IF sorted = <<>> THEN <<i>>
    ELSE IF LargestFirst(dir[i].size, dir[Head(sorted)].size)
    THEN <<i>> \o sorted
    ELSE <<Head(sorted)>> \o InsertSorted(Tail(sorted), i, dir)

RECURSIVE SortFiles(_, _)
SortFiles(files, dir) ==
    IF files = <<>> THEN <<>>
    ELSE InsertSorted(SortFiles(SubSeq(files, 1, Len(files) - 1), dir),
                      files[Len(files)], dir)

\* Lines 129-132: the names of the regular files with a video extension
RECURSIVE VideoFiles(_, _, _)
VideoFiles(dir, video_exts, i) ==
    IF i > Len(dir) THEN <<>>
    ELSE (IF dir[i].isfile /\ Lower(dir[i].ext) \in video_exts
          THEN <<i>> ELSE <<>>) \o VideoFiles(dir, video_exts, i + 1)

\* first_movie_file, lines 128-136: the name of the file, 0 for None
first_movie_file(dir, video_exts) ==
    LET files == VideoFiles(dir, video_exts, 1)
    IN  IF files = <<>> THEN 0 ELSE Head(SortFiles(files, dir))

\* first_movie_file is called on scan.dir
FirstMovieFile ==
    /\ pc = "fmf"
    /\ scan' = [scan EXCEPT !.result = first_movie_file(scan.dir, scan.exts)]
    /\ pc' = "done"
    /\ UNCHANGED <<cfg, lib, cur, loc, main, calls, fsops, decs, memo>>

InitFirstMovie ==
    /\ pc = "fmf"
    /\ scan \in [dir : Listings, exts : ExtSets, result : {-1}]
    /\ cfg = DefaultCfg
    /\ lib = EmptyLib
    /\ cur = <<0, 0>>
    /\ loc = LocInit
    /\ main = MainInit(1)
    /\ calls = <<>>
    /\ fsops = <<>>
    /\ decs = <<>>
    /\ memo = NoMemo

\* first_movie_file on every directory of up to MaxFiles entries
SpecFirstMovie == InitFirstMovie /\ [][FirstMovieFile]_vars

\* ------------------------------------------------------------ scan_stats
\* stats.py, lines 123-127: the trailer files of a folder, .mp4 before .mkv
Candidates(f) ==
    (IF Exists(f.mp4) THEN <<"mp4">> ELSE <<>>)
        \o (IF Exists(f.mkv) THEN <<"mkv">> ELSE <<>>)

\* stats.py, lines 137-143: the loop that keeps the candidate of greater
\* height; best is the pair of best_h and best_path.
RECURSIVE PickBest(_, _, _, _)
PickBest(f, cands, i, best) ==
    IF i > Len(cands) THEN best
    ELSE LET h == get_video_height(f[cands[i]])
             floor == IF Truthy(best.h) THEN best.h ELSE -1
         IN  IF best.h = None \/ (h # None /\ h > floor)
             THEN PickBest(f, cands, i + 1, [h |-> h, path |-> cands[i]])
             ELSE PickBest(f, cands, i + 1, best)

\* stats.py, line 147
BelowTargetLe(best_h, preferred) == best_h = None \/ best_h <= preferred
BelowTarget(best_h, preferred) == best_h = None \/ best_h < preferred

\* The locals of scan_stats: ri counts the roots begun, queue is what is
\* left of sorted(os.listdir(root)); a folder stands for its title.
StatsInit ==
    [ri |-> 0, queue |-> <<>>, total_movies |-> 0, trailers_present |-> 0,
     failing |-> <<>>, missing |-> <<>>]

\* stats.py, lines 106-109: the next root; one that is no directory is
\* skipped.
StatsNextRoot ==
    /\ pc = "stats"
    /\ scan.queue = <<>>
    /\ scan.ri < Len(cfg.roots)
    /\ LET r == cfg.roots[scan.ri + 1]
       IN  scan' = [scan EXCEPT
               !.ri = @ + 1,
               !.queue = IF lib[r].isdir
                         THEN [k \in 1..Len(ListingOrder({d \in DOMAIN lib[r].entries :
                                                lib[r].entries[d].kind # "none"})) |->
                                  <<r, ListingOrder({d \in DOMAIN lib[r].entries :
                                                lib[r].entries[d].kind # "none"})[k]>>]
                         ELSE <<>>]
    /\ UNCHANGED <<cfg, lib, pc, cur, loc, main, calls, fsops, decs, memo>>

\* stats.py, lines 110-150: one entry of the root
StatsFolder ==
    /\ pc = "stats"
    /\ scan.queue # <<>>
    /\ LET ix == Head(scan.queue)
           f == lib[ix[1]].entries[ix[2]]
           rest == [scan EXCEPT !.queue = Tail(@)]
           cands == Candidates(f)
           best == PickBest(f, cands, 1, [h |-> None, path |-> "none"])
       IN  scan' =
             IF f.kind # "dir" \/ ~f.movie THEN rest
             ELSE IF cands = <<>>
             THEN [rest EXCEPT !.total_movies = @ + 1,
                               !.missing = Append(@, ix)]
             ELSE IF BelowTarget(best.h, cfg.pref)
             THEN [rest EXCEPT !.total_movies = @ + 1,
                               !.trailers_present = @ + 1,
                               !.failing = Append(@, <<ix, best.h, best.path>>)]
             ELSE [rest EXCEPT !.total_movies = @ + 1,
                               !.trailers_present = @ + 1]
    /\ UNCHANGED <<cfg, lib, pc, cur, loc, main, calls, fsops, decs, memo>>

\* stats.py, line 152
StatsReturn ==
    /\ pc = "stats"
    /\ scan.queue = <<>>
    /\ scan.ri = Len(cfg.roots)
    /\ pc' = "done"
    /\ UNCHANGED <<scan, cfg, lib, cur, loc, main, calls, fsops, decs, memo>>

StatsNext == StatsNextRoot \/ StatsFolder \/ StatsReturn

\* The entries a root holds when the stats command is run
StatsEntries ==
    {PlainFile, EmptyDir}
    \cup [kind : {"dir"}, movie : {TRUE},
          mp4 : Files, mkv : Files, tmp4 : {Absent}, tmkv : {Absent}]

InitStats ==
    /\ pc = "stats"
    /\ scan = StatsInit
    /\ cfg \in {[DefaultCfg EXCEPT !.cmd = "stats", !.roots = rs, !.pref = p] :
                   rs \in {<<1>>, <<1, 2>>, <<2, 1>>}, p \in 2..MaxHeight}
    /\ lib \in {[r \in 1..MaxRoots |->
                    IF r = 1 THEN [isdir |-> TRUE, entries |-> e]
                    ELSE IF second THEN [isdir |-> TRUE,
                                         entries |-> [d \in 1..MaxDirs |-> NoTrailer]]
                    ELSE EmptyLib[r]] :
                   e \in [1..MaxDirs -> StatsEntries], second \in BOOLEAN}
    /\ cur = <<0, 0>>
    /\ loc = LocInit
    /\ main = MainInit(1)
    /\ calls = <<>>
    /\ fsops = <<>>
    /\ decs = <<>>
    /\ memo = NoMemo

\* The stats command over a library of MaxRoots roots
SpecStats == InitStats /\ [][StatsNext]_vars

\* ---------------------------------------------- stats, then the batch run
\* The batch command is started on the library the stats command has just
\* reported on; scan keeps what scan_stats returned.
BatchAfterStats ==
    /\ pc = "done"
    /\ cfg.cmd = "stats"
    /\ cfg' = [cfg EXCEPT !.cmd = "batch"]
    /\ pc' = "start"
    /\ UNCHANGED <<scan, lib, cur, loc, main, calls, fsops, decs, memo>>

InitStatsThenBatch ==
    /\ pc = "stats"
    /\ scan = StatsInit
    /\ cfg \in {[DefaultCfg EXCEPT !.cmd = "stats", !.pref = p] :
                   p \in 2..MaxHeight}
    /\ lib \in {OneFolderLib(f) : f \in MovieFolders \cup {EmptyDir, PlainFile}}
    /\ cur = <<0, 0>>
    /\ loc = LocInit
    /\ main = MainInit(1)
    /\ calls = <<>>
    /\ fsops = <<>>
    /\ decs = <<>>
    /\ memo = NoMemo

\* Both commands, one after the other, on every state of one movie folder
SpecStatsThenBatch ==
    InitStatsThenBatch /\ [][StatsNext \/ BatchAfterStats \/ BatchNext]_vars

\* ============================================================ the claims
\* A download call is under way or has just returned
EnginePcs ==
    {"b_mp4", "b_mkv", "b_ret", "m_mp4", "m_hls", "m_prog", "m_mkv",
     "m_fail", "m_ret"}

\* The download call has returned to its caller with loc.ret
Returned == pc \in {"b_ret", "m_ret"}

\* Of a decision d: where the candidate lies, where it would be placed, and
\* the file operations the decision made
CandPath(d) == IF d.pass = "mkv" THEN "tmkv" ELSE "tmp4"
TargetPath(d) == IF d.pass = "mkv" THEN "mkv" ELSE "mp4"
NewOps(d) == SubSeq(d.post.ops, Len(d.pre.ops) + 1, Len(d.post.ops))

\* The candidate was moved onto the trailer path
Placed(d) ==
    /\ NewOps(d) # <<>>
    /\ NewOps(d)[Len(NewOps(d))] = <<"move", CandPath(d), TargetPath(d)>>
    /\ d.post[TargetPath(d)] = d.pre[CandPath(d)]

\* The candidate was deleted and no trailer file was touched
Discarded(d) ==
    /\ NewOps(d) = << <<"remove", CandPath(d), CandPath(d)>> >>
    /\ d.post[CandPath(d)] = Absent
    /\ d.post.mp4 = d.pre.mp4
    /\ d.post.mkv = d.pre.mkv

\* The heights the decision compares: H of the existing trailer (the .mkv
\* when present, otherwise the .mp4) and H' of the candidate
HeightOld(d) == get_video_height(ExistingTrailer(d.pre))
HeightNew(d) == get_video_height(d.pre[CandPath(d)])

\* C1: in both engines and at every pass that produced a candidate, a
\* candidate of probed height H' is moved onto the trailer path if and only
\* if H' > H or no H exists; when H' <= H the candidate is deleted and the
\* existing trailer file is left untouched.
C1_ReplacementRule ==
    \A i \in DOMAIN decs :
        LET d == decs[i]
        IN  HeightNew(d) # None =>
                /\ Placed(d) <=>
                       (HeightOld(d) = None \/ HeightNew(d) > HeightOld(d))
                /\ (HeightOld(d) # None /\ HeightNew(d) <= HeightOld(d))
                       => Discarded(d)

\* C1 witness: a call returned after a candidate of the same height as the
\* existing trailer was discarded
C1_Witness_EqualDiscarded ==
    /\ Returned
    /\ \E i \in DOMAIN decs :
           /\ HeightOld(decs[i]) \in Heights
           /\ HeightNew(decs[i]) = HeightOld(decs[i])
           /\ Discarded(decs[i])

\* C2: a download call returns failure (False) only when no trailer file
\* (.mp4 or .mkv at the target base path) exists afterward.
C2_FalseOnlyWithoutTrailer ==
    (Returned /\ loc.ret = "False")
        => (~Exists(CurFolder.mp4) /\ ~Exists(CurFolder.mkv))

\* C3: in every pass of both engines, a candidate whose height could not be
\* probed is moved into place only when no trailer file exists at all at
\* the target base path.
C3_UnknownNeverReplaces ==
    \A i \in DOMAIN decs :
        (HeightNew(decs[i]) = None /\ Placed(decs[i]))
            => ExistingPath(decs[i].pre) = "none"

\* A file operation on one of the two trailer files of the movie folder
TouchesTrailer(op) == op[2] \in {"mp4", "mkv"} \/ op[3] \in {"mp4", "mkv"}

\* C4: when the batch command is run twice in a row over the same library,
\* the services, the downloader and the prober answering the same way, the
\* second run creates, overwrites or removes no trailer file.
C4_SecondRunIdempotent ==
    main.run > 1 => \A i \in DOMAIN fsops : ~TouchesTrailer(fsops[i])

\* C5: in process_movie_dir, when the folder's existing trailer (the .mkv if
\* present, otherwise the .mp4) probes at a height greater than or equal to
\* the preferred height, the folder is left with no TMDB request, no YouTube
\* search request and no download attempt, and every file is unchanged.
C5_SkipWithoutNetwork ==
    (/\ cfg.cmd = "batch"
     /\ pc \in FolderPcs \cup {"pmd_ret", "raised"}
     /\ get_video_height(ExistingTrailer(loc.start)) # None
     /\ get_video_height(ExistingTrailer(loc.start)) >= cfg.pref)
        => /\ calls = <<>>
           /\ fsops = <<>>
           /\ CurFolder = loc.start
           /\ pc \in {"pmd", "pmd_ret"}

\* C5 witness: process_movie_dir returned for a folder whose trailer has
\* exactly the preferred height
C5_Witness_SkippedAtPreferred ==
    /\ cfg.cmd = "batch"
    /\ pc = "pmd_ret"
    /\ loc.start.movie
    /\ get_video_height(ExistingTrailer(loc.start)) = cfg.pref
    /\ calls = <<>>

\* C6: for every folder that starts with at most one of the two trailer
\* files (.mp4, .mkv), at most one of them exists after any download call.
C6_AtMostOneTrailer ==
    (/\ Returned
     /\ ~(Exists(loc.start.mp4) /\ Exists(loc.start.mkv)))
        => ~(Exists(CurFolder.mp4) /\ Exists(CurFolder.mkv))

\* C7: when strict_language is on, a trailer obtained from TMDB whose
\* language tag differs from the configured language is never the video id
\* handed to the download engine: the id in hand at the download step comes
\* from the YouTube search.
C7_StrictLanguage ==
    (/\ pc = "b_call"
     /\ cfg.strict
     /\ loc.key # 0
     /\ loc.found_lang # cfg.lang)
        => loc.src = "youtube"

\* C7 witness: in strict mode TMDB's only trailers were in another language
\* and the download step is reached with an id
C7_Witness_ForeignDropped ==
    /\ pc = "b_call"
    /\ cfg.strict
    /\ loc.key # 0
    /\ loc.found_lang # cfg.lang
    /\ loc.found_lang \in Langs
    /\ calls = <<"tmdb_search", "tmdb_videos", "tmdb_videos_any", "yt_search">>

\* A file operation on the .mkv trailer or on the temp .mkv
TouchesMkv(op) == op[2] \in {"mkv", "tmkv"} \/ op[3] \in {"mkv", "tmkv"}

\* C8: in both engines, when allow_non_mp4_for_quality is false, no MKV
\* download is attempted and no .mkv file is created, moved or removed by
\* the call, for every outcome of the earlier passes.
C8_MkvOnlyIfAllowed ==
    (~cfg.allow /\ pc \in EnginePcs)
        => /\ \A i \in DOMAIN calls : calls[i] # "dl_mkv"
           /\ \A i \in DOMAIN fsops : ~TouchesMkv(fsops[i])
           /\ CurFolder.mkv = loc.start.mkv
           /\ CurFolder.tmkv = loc.start.tmkv

\* C8 witness: with the MKV pass disabled, the batch engine returned failure
\* after an MP4 pass that placed a file below the preferred height
C8_Witness_DisabledAfterMp4 ==
    /\ ~cfg.allow
    /\ pc = "b_ret"
    /\ loc.ret = "False"
    /\ calls[Len(calls)] = "dl_mp4"
    /\ fsops = << <<"move", "tmp4", "mp4">> >>

\* C9: when a download call returns, neither the temp .mp4 nor the temp .mkv
\* remains in the temp directory, whether the candidate was discarded, a
\* pass raised an error, or the call returned failure; when every pass
\* failed with no existing trailer, no trailer file remains either.
C9_TempCleanedUp ==
    Returned =>
        /\ CurFolder.tmp4 = Absent
        /\ CurFolder.tmkv = Absent
        /\ (/\ loc.ret = "False"
            /\ decs = <<>>
            /\ ExistingPath(loc.start) = "none")
               => ExistingPath(CurFolder) = "none"

\* The sub-directories of the i-th configured root, in ascending name order,
\* each paired with i
RootFolders(i) ==
    LET r == lib[cfg.roots[i]]
        dirs == IF r.isdir
                THEN {d \in DOMAIN r.entries : r.entries[d].kind = "dir"}
                ELSE {}
    IN  [k \in 1..Cardinality(dirs) |->
            <<i, CHOOSE d \in dirs : Cardinality({e \in dirs : e < d}) = k - 1>>]

\* Every folder of every configured root, root by root
RECURSIVE FoldersFrom(_)
FoldersFrom(i) ==
    IF i > Len(cfg.roots) THEN <<>> ELSE RootFolders(i) \o FoldersFrom(i + 1)

IsPrefix(s, t) == Len(s) <= Len(t) /\ s = SubSeq(t, 1, Len(s))

\* C10: an exception (other than a user interrupt) raised while one movie
\* folder is processed is caught and logged, and every remaining folder of
\* every configured root is still processed, each folder once per root, in
\* sorted name order within its root.
C10_FailureIsolation ==
    /\ IsPrefix(main.processed, FoldersFrom(1))
    /\ pc = "raised" => main.exit = -1
    /\ \A i \in DOMAIN main.errors :
           \E k \in DOMAIN main.processed :
               main.errors[i] = <<cfg.roots[main.processed[k][1]],
                                  main.processed[k][2]>>
    /\ (pc = "done" /\ main.exit \notin {2, 130})
           => /\ main.exit = 0
              /\ main.processed = FoldersFrom(1)

\* C10 witness: the command ended normally although the first folder of the
\* first root raised, and went on to the folders of the second root
C10_Witness_WentOnAfterError ==
    /\ pc = "done"
    /\ main.exit = 0
    /\ Len(main.errors) = 1
    /\ Len(main.processed) >= 3
    /\ main.errors[1] = <<cfg.roots[1], main.processed[1][2]>>
    /\ main.processed[1][1] = 1
    /\ main.processed[Len(main.processed)][1] = 2

\* C11: the manual command exits with 2, before any download attempt, when
\* the config file is missing, the movie directory is not a directory, no
\* video id can be parsed, or no movie file is found; otherwise it exits
\* with 0 exactly when the download call returned success and with 1
\* exactly when it returned failure.
C11_ManualExitCodes ==
    (cfg.cmd = "manual" /\ pc = "done") =>
        IF ~cfg.file \/ CurFolder.kind # "dir" \/ ~cfg.idok \/ ~CurFolder.movie
        THEN main.exit = 2 /\ calls = <<>> /\ fsops = <<>>
        ELSE /\ main.exit \in {0, 1}
             /\ main.exit = 0 <=> loc.ret = "True"
             /\ main.exit = 1 <=> loc.ret = "False"

\* C11 witness: the manual command ended with 1 after a download call in
\* which every pass failed
C11_Witness_ExitOne ==
    /\ cfg.cmd = "manual"
    /\ pc = "done"
    /\ main.exit = 1
    /\ loc.ret = "False"
    /\ Len(calls) >= 2

\* C12: at every stage of the resolver (TMDB search, its retry without the
\* year, TMDB videos, the unfiltered videos lookup, YouTube search) a
\* non-2xx HTTP response is treated as no results for that stage and never
\* raises: the stage ends without an exception and without a result.
C12_Non2xxIsNoResult ==
    loc.non2xx => (pc # "raised" /\ loc.vid = 0)

\* Entry i of the directory listed is a regular file with a video extension
IsVideoFile(i) ==
    scan.dir[i].isfile /\ Lower(scan.dir[i].ext) \in scan.exts

\* C13: first_movie_file(dir, exts) returns a regular file directly in dir
\* whose extension, compared case-insensitively, is in exts and whose size
\* is greater than or equal to that of every other such file; it returns
\* none exactly when no file in dir has an extension in exts.
C13_FirstMovieFile ==
    (pc = "done" /\ scan.result # -1) =>
        /\ scan.result = 0 <=> ~\E i \in DOMAIN scan.dir : IsVideoFile(i)
        /\ scan.result # 0 =>
               /\ scan.result \in DOMAIN scan.dir
               /\ IsVideoFile(scan.result)
               /\ \A j \in DOMAIN scan.dir :
                      IsVideoFile(j) =>
                          scan.dir[scan.result].size >= scan.dir[j].size

\* C13 witness: the file returned has an upper-case extension, is larger
\* than another video file, and a larger directory of a video name is
\* passed over
C13_Witness_LargestPicked ==
    /\ pc = "done"
    /\ scan.result > 0
    /\ scan.dir[scan.result].ext = "MKV"
    /\ \E j \in DOMAIN scan.dir :
           IsVideoFile(j) /\ scan.dir[j].size < scan.dir[scan.result].size
    /\ \E j \in DOMAIN scan.dir :
           /\ ~scan.dir[j].isfile
           /\ scan.dir[j].ext = "mkv"
           /\ j < scan.result

\* The folders scan_stats has to count: the movie folders (a directory with
\* a main video file) of the configured roots
StatsMovies ==
    {ix \in (1..MaxRoots) \X (1..MaxDirs) :
        /\ \E k \in 1..Len(cfg.roots) : cfg.roots[k] = ix[1]
        /\ lib[ix[1]].isdir
        /\ lib[ix[1]].entries[ix[2]].kind = "dir"
        /\ lib[ix[1]].entries[ix[2]].movie}

\* The greater of the probed heights of a folder's trailer files, an
\* unknown height (None = -1) being the lowest
Representative(f) ==
    LET hs == {get_video_height(f[p]) : p \in {q \in {"mp4", "mkv"} : Exists(f[q])}}
    IN  CHOOSE h \in hs : \A g \in hs : g <= h

InMissing(ix) == \E k \in 1..Len(scan.missing) : scan.missing[k] = ix
InFailing(ix) == \E k \in 1..Len(scan.failing) : scan.failing[k][1] = ix

\* C14: when scan_stats has returned, every movie folder of the configured
\* roots is in exactly one class: listed once as missing when it has neither
\* trailer file, listed once as below target, with its representative
\* height, when that height is unknown or less than the preferred height,
\* and in neither list otherwise; total_movies = trailers_present +
\* |missing|, |failing| <= trailers_present, and the lists hold nothing else.
C14_StatsPartition ==
    (pc = "done" /\ cfg.cmd = "stats") =>
        /\ \A ix \in StatsMovies :
              LET f == lib[ix[1]].entries[ix[2]]
              IN  IF Candidates(f) = <<>>
                  THEN InMissing(ix) /\ ~InFailing(ix)
                  ELSE /\ ~InMissing(ix)
                       /\ InFailing(ix) <=>
                             (Representative(f) = None
                                 \/ Representative(f) < cfg.pref)
                       /\ \A k \in 1..Len(scan.failing) :
                             scan.failing[k][1] = ix =>
                                 /\ scan.failing[k][2] = Representative(f)
                                 /\ get_video_height(f[scan.failing[k][3]])
                                        = Representative(f)
        /\ \A k \in 1..Len(scan.missing) :
              /\ scan.missing[k] \in StatsMovies
              /\ \A j \in 1..Len(scan.missing) : scan.missing[j] = scan.missing[k] => j = k
        /\ \A k \in 1..Len(scan.failing) :
              /\ scan.failing[k][1] \in StatsMovies
              /\ \A j \in 1..Len(scan.failing) :
                    scan.failing[j][1] = scan.failing[k][1] => j = k
        /\ scan.total_movies = Cardinality(StatsMovies)
        /\ scan.total_movies = scan.trailers_present + Len(scan.missing)
        /\ Len(scan.failing) <= scan.trailers_present

\* C14 witness: a scan that returned with one folder in each class, the
\* one below target having an .mp4 of unknown height and a readable .mkv
C14_Witness_AllThreeClasses ==
    /\ pc = "done" /\ cfg.cmd = "stats"
    /\ Len(scan.missing) >= 1
    /\ \E k \in 1..Len(scan.failing) : scan.failing[k][3] = "mkv"
    /\ scan.trailers_present > Len(scan.failing)

\* The download passes made so far, in the order they were made
IsPass(c) == c \in {"dl_mp4", "dl_hls", "dl_prog", "dl_mkv"}
Passes == SelectSeq(calls, IsPass)
PassRank(c) ==
    CASE c = "dl_mp4" -> 1 [] c = "dl_hls" -> 2 [] c = "dl_prog" -> 3
      [] OTHER -> 4

\* C15: in both engines the passes of a download call are a subsequence of
\* (MP4-first, HLS-only, progressive-MP4, any-to-MKV) in that order that
\* begins with the MP4-first pass, no pass is made twice (so at most four
\* are made), a pass is under way only inside the call, and the call
\* returns True or False.
C15_PassOrder ==
    /\ \A i \in 1..Len(Passes) : \A j \in 1..Len(Passes) :
          i < j => PassRank(Passes[i]) < PassRank(Passes[j])
    /\ Passes # <<>> => Passes[1] = "dl_mp4"
    /\ Len(Passes) <= 4
    /\ pc \in EnginePcs \ {"b_mp4", "m_mp4"} => Passes # <<>>
    /\ Returned => loc.ret \in {"True", "False"}

\* C15 witness: a manual call that made all four passes and returned
C15_Witness_AllFourPasses ==
    /\ pc = "m_ret"
    /\ Passes = <<"dl_mp4", "dl_hls", "dl_prog", "dl_mkv">>

\* The downloader invocation a decision belongs to
PassOf(d) ==
    CASE d.pass = "mp4" -> "dl_mp4" [] d.pass = "hls" -> "dl_hls"
      [] d.pass = "prog" -> "dl_prog" [] OTHER -> "dl_mkv"

\* C16: in both engines, once a pass has placed its candidate or discarded
\* it in favour of the existing trailer, no later pass is made and the call
\* returns True.
C16_DecisionEndsCall ==
    \A k \in 1..Len(decs) :
        (Placed(decs[k]) \/ Discarded(decs[k])) =>
            /\ Passes[Len(Passes)] = PassOf(decs[k])
            /\ pc \notin {"b_mkv", "m_hls", "m_prog", "m_mkv", "m_fail"}
            /\ Returned => loc.ret = "True"

\* C17: the manual engine gives up (cleanup and return False) only after
\* the progressive-MP4 pass has been attempted: whatever made the MP4-first
\* pass fail, a later pass is tried.
C17_SoftFailure ==
    (cfg.cmd = "manual"
        /\ (pc = "m_fail" \/ (pc = "m_ret" /\ loc.ret = "False")))
    => \E i \in 1..Len(Passes) : Passes[i] = "dl_prog"

\* What the MP4-first pass of the manual engine raised ("ok" when it
\* returned): the entry of calls that follows "dl_mp4"
Mp4Raised ==
    IF Len(calls) >= 2 /\ calls[1] = "dl_mp4" /\ ~IsPass(calls[2])
    THEN calls[2] ELSE "ok"

HlsDecisions == SelectSeq(decs, LAMBDA d : d.pass = "hls")

\* C18: the manual engine makes the HLS-only download only after the
\* MP4-first pass raised a DownloadError with a fragment-403 /
\* fragment-not-found message, and after such an error the HLS pass is the
\* next one; a candidate the HLS pass places when no trailer exists becomes
\* the .mp4 trailer and the call returns True.
C18_HlsFallback ==
    cfg.cmd = "manual" =>
        /\ (\E i \in 1..Len(Passes) : Passes[i] = "dl_hls")
              => Mp4Raised = "dlerr403"
        /\ (Mp4Raised = "dlerr403" /\ Len(Passes) >= 2)
              => Passes[2] = "dl_hls"
        /\ pc = "m_hls" <=> (Mp4Raised = "dlerr403" /\ Len(Passes) = 1)
        /\ \A k \in 1..Len(HlsDecisions) :
              LET d == HlsDecisions[k]
              IN  (Placed(d) /\ ExistingPath(d.pre) = "none") =>
                     /\ d.post.mp4 = d.pre.tmp4
                     /\ d.post.mkv = Absent
                     /\ pc # "m_prog"
                     /\ Returned => loc.ret = "True"

\* C18 witness: the MP4-first pass raised a fragment-403 error, the HLS pass
\* placed its file as the first trailer and the call returned True
C18_Witness_HlsPlaced ==
    /\ pc = "m_ret" /\ loc.ret = "True"
    /\ Passes = <<"dl_mp4", "dl_hls">>
    /\ Len(HlsDecisions) = 1
    /\ Placed(HlsDecisions[1])
    /\ ExistingPath(HlsDecisions[1].pre) = "none"
    /\ Exists(CurFolder.mp4)

MkvDecisions == SelectSeq(decs, LAMBDA d : d.pass = "mkv")

\* Of a decision of the MKV pass: the trailer on disk when the comparison
\* is made (.mkv before .mp4), its height probed then, and the positions
\* in the decision's file operations of the removal of a trailer file and
\* of the move of the candidate
CurrentBest(d) ==
    IF d.pre.mkv # Absent THEN "mkv"
    ELSE IF d.pre.mp4 # Absent THEN "mp4" ELSE "none"
CurrentBestH(d) ==
    IF CurrentBest(d) = "none" THEN None
    ELSE IF d.pre[CurrentBest(d)] >= 0 THEN d.pre[CurrentBest(d)] ELSE None
Removals(d) ==
    {i \in 1..Len(NewOps(d)) :
        NewOps(d)[i][1] = "remove" /\ NewOps(d)[i][2] \in {"mp4", "mkv"}}
Moves(d) ==
    {i \in 1..Len(NewOps(d)) : NewOps(d)[i] = <<"move", "tmkv", "mkv">>}
MkvBetter(d) ==
    CurrentBestH(d) = None \/ HeightNew(d) > CurrentBestH(d)

\* C19: in both engines the MKV pass compares its candidate with the
\* trailer that is on disk after the download (the .mkv if there is one,
\* otherwise the .mp4), at the height probed then: a trailer file is
\* removed, and the candidate moved, only when the candidate is strictly
\* higher or no current height is known; then the current file, and only
\* it, is removed, and before the candidate is moved; otherwise the
\* candidate is discarded.
C19_MkvComparison ==
    \A k \in 1..Len(MkvDecisions) :
        LET d == MkvDecisions[k]
        IN  /\ (Removals(d) # {} \/ Moves(d) # {}) => MkvBetter(d)
            /\ \A i \in Removals(d) :
                  /\ NewOps(d)[i][2] = CurrentBest(d)
                  /\ \A j \in Moves(d) : i < j
            /\ (MkvBetter(d) /\ CurrentBest(d) # "none") => Removals(d) # {}
            /\ (MkvBetter(d) /\ d.pre.tmkv # Absent) => Placed(d)
            /\ ~MkvBetter(d) =>
                  /\ d.post.tmkv = Absent
                  /\ d.post.mp4 = d.pre.mp4
                  /\ d.post.mkv = d.pre.mkv

\* C19 witness: the MKV pass found an .mp4 trailer on disk that was not
\* there when the call began, removed it and then moved its higher
\* candidate in place
C19_Witness_RemovedThenMoved ==
    /\ Len(MkvDecisions) = 1
    /\ CurrentBest(MkvDecisions[1]) = "mp4"
    /\ ~Exists(loc.start.mp4)
    /\ CurrentBestH(MkvDecisions[1]) # None
    /\ NewOps(MkvDecisions[1]) =
          << <<"remove", "mp4", "mp4">>, <<"move", "tmkv", "mkv">> >>

Mp4Decisions == SelectSeq(decs, LAMBDA d : d.pass = "mp4")
MkvAttempted == \E i \in 1..Len(Passes) : Passes[i] = "dl_mkv"

\* C20: in both engines, when the MP4-first pass has placed a candidate of
\* known height, the call does not return without an MKV attempt if that
\* height is below the preferred height and the MKV pass is enabled, and it
\* returns True without an MKV attempt if the height is at or above the
\* preferred height.
C20_MkvUpgradePolicy ==
    \A k \in 1..Len(Mp4Decisions) :
        LET d == Mp4Decisions[k]
        IN  (Placed(d) /\ HeightNew(d) # None) =>
               IF HeightNew(d) >= cfg.pref
               THEN /\ ~MkvAttempted
                    /\ Returned => loc.ret = "True"
               ELSE (cfg.allow /\ Returned) => MkvAttempted

Requested(c) == \E i \in 1..Len(calls) : calls[i] = c

\* TMDB gave a video id that the strict-language gate lets through (while
\* process_movie_dir holds it in key / found_lang)
TmdbAccepted ==
    loc.key # 0 /\ (cfg.strict => loc.found_lang = cfg.lang)

\* C21: in the batch command the first request for a folder is the TMDB
\* search; the YouTube stage is entered, and its request made, only when
\* TMDB gave no accepted video id; without a YouTube key no YouTube request
\* is made and the stage yields no id; the download engine is entered, and
\* a download made, only with a video id that one of the stages yielded.
C21_ResolverOrder ==
    cfg.cmd = "batch" =>
        /\ calls # <<>> => calls[1] = "tmdb_search"
        /\ pc \in {"tmdb_videos", "gate", "yt", "b_call"}
              => Requested("tmdb_search")
        /\ pc = "yt" => ~TmdbAccepted
        /\ Requested("yt_search") => (~TmdbAccepted /\ loc.src # "tmdb")
        /\ loc.src = "tmdb" => Requested("tmdb_videos")
        /\ loc.src = "youtube" => Requested("yt_search")
        /\ ~cfg.ytkey => (~Requested("yt_search") /\ loc.src # "youtube")
        /\ (pc \in EnginePcs \cup {"b_call"} \/ Passes # <<>>)
              => (loc.vid # 0 /\ loc.src \in {"tmdb", "youtube"})

\* C21 witness: the strict gate rejected the TMDB video, the YouTube search
\* was made after the TMDB requests and its hit is being downloaded
C21_Witness_FallbackDownloaded ==
    /\ cfg.cmd = "batch" /\ cfg.strict
    /\ pc = "b_mkv"
    /\ loc.src = "youtube"
    /\ Requested("tmdb_videos")
    /\ calls[Len(calls) - 1] = "yt_search"
    /\ calls[Len(calls)] = "dl_mp4"

HadTrailer == Exists(loc.start.mp4) \/ Exists(loc.start.mkv)
HasTrailer == Exists(CurFolder.mp4) \/ Exists(CurFolder.mkv)

\* C22: in both engines, when a trailer file (.mp4 or .mkv) existed as the
\* download call began, one exists when the call returns, whatever the
\* downloader and the prober did.
C22_NoTrailerLost ==
    (Returned /\ HadTrailer) => HasTrailer

\* C23: in both engines, when the call returns True, and existing_height
\* was not None only for a trailer that existed, a trailer file (.mp4 or
\* .mkv) exists at the target base path.
C23_SuccessHasTrailer ==
    (Returned /\ loc.ret = "True" /\ (loc.eh # None => HadTrailer))
        => HasTrailer

\* C23 witness: the batch call returned True after its MKV pass removed the
\* trailer it found and moved its candidate in place
C23_Witness_UpgradedToMkv ==
    /\ pc = "b_ret" /\ loc.ret = "True"
    /\ HadTrailer
    /\ Len(MkvDecisions) = 1
    /\ Removals(MkvDecisions[1]) # {}
    /\ Exists(CurFolder.mkv) /\ ~Exists(CurFolder.mp4)

\* scan_stats counted the one folder of the library and listed it neither
\* as missing nor as below target
StatsSatisfied ==
    scan.total_movies = 1 /\ scan.missing = <<>> /\ scan.failing = <<>>

\* C24: for every on-disk state of a movie folder, the batch command that
\* follows the stats report skips the folder as already at or above the
\* preferred height (process_movie_dir returns without a request) if and
\* only if scan_stats classified it as satisfied.
C24_StatsAgreesWithBatch ==
    (cfg.cmd = "batch" /\ cur = <<1, 1>> /\ loc.start.movie) =>
        /\ pc = "tmdb_search" => ~StatsSatisfied
        /\ (pc = "pmd_ret" /\ calls = <<>>) => StatsSatisfied
====
